---- MODULE Spec2Model ----
(***************************************************************************)
(* Model of the chat shell of src/App.tsx: the React state of App          *)
(* (messages, input, isLoading, config), the event handlers that change    *)
(* it, and the asynchronous part of handleSubmit that consumes the         *)
(* fragment stream returned by streamGeminiResponse.                       *)
(*                                                                         *)
(* Strings are sequences of one-character strings.  Every handler step     *)
(* between two suspension points is one action; React commits the state    *)
(* updates of a step before the next event is delivered, so the values a   *)
(* handler closes over are the committed values.                           *)
(***************************************************************************)
EXTENDS Integers, Sequences, FiniteSets, TLC

\* ---------------------------------------------------------------- bounds
MaxTurns == 2
MaxFrags == 2

\* ------------------------------------------------------------ input sets
\* what the user types: nothing, blanks only, plain text, text padded with
\* blanks on both sides
Inputs == {<<>>, <<" ">>, <<"a">>, <<" ", "a", " ">>}

\* the fragments a stream yields; the streams of the model alternate them,
\* starting with either
Fragments == {<<"x">>, <<"y", "x">>}

NextFragments(yielded) ==
  IF yielded = <<>> THEN Fragments ELSE Fragments \ {yielded[Len(yielded)]}

\* the texts of the two suggestion buttons, shortened
Suggestion1 == <<"a", " ", "a">>
Suggestion2 == <<"a", "a">>

ErrorText == <<"I encountered an error processing your request.">>

INITIAL_CONFIG == [temperature |-> 7, thinkingBudget |-> 4096, enableThinking |-> TRUE]

Configs ==
  {INITIAL_CONFIG,
   [temperature |-> 10, thinkingBudget |-> 0, enableThinking |-> FALSE]}

\* ------------------------------------------------------------ data model
USER == "user"
MODEL == "model"

IsError(m) == "isError" \in DOMAIN m /\ m.isError = TRUE

\* String.prototype.trim over the model alphabet
RECURSIVE TrimStart(_)
TrimStart(s) ==
  IF s = <<>> THEN <<>>
  ELSE IF Head(s) = " " THEN TrimStart(Tail(s)) ELSE s

RECURSIVE TrimEnd(_)
TrimEnd(s) ==
  IF s = <<>> THEN <<>>
  ELSE IF s[Len(s)] = " " THEN TrimEnd(SubSeq(s, 1, Len(s) - 1)) ELSE s

\* mutant: trimStart in place of trim
Trim_StartOnly(s) == TrimStart(s)

Trim(s) == TrimEnd(TrimStart(s))

RECURSIVE Concat(_)
Concat(fs) == IF fs = <<>> THEN <<>> ELSE Head(fs) \o Concat(Tail(fs))

Ids(ms) == {ms[i].id : i \in DOMAIN ms}

\* ----------------------------------------------------------------- state
VARIABLES
  messages,   \* useState<Message[]>
  input,      \* useState('')
  isLoading,  \* useState(false)
  config,     \* useState<ModelConfig>
  turns,      \* the handleSubmit invocations suspended in `for await`
  nextId,     \* source of fresh uuidv4 values
  now,        \* Date.now(), one tick per submission
  event       \* the handler step that ran last

vars == <<messages, input, isLoading, config, turns, nextId, now, event>>

Init ==
  /\ messages = <<>>
  /\ input = <<>>
  /\ isLoading = FALSE
  /\ config = INITIAL_CONFIG
  /\ turns = <<>>
  /\ nextId = 1
  /\ now = 0
  /\ event = "init"

\* ------------------------------------------------------- message builders
UserMessage(id, userText, ts) ==
  [id |-> id, text |-> userText, sender |-> USER, timestamp |-> ts]

\* mutant: the placeholder built with the sender of the user message
InitialAiMessage_UserSender(id, ts) ==
  [id |-> id, text |-> <<>>, sender |-> USER, timestamp |-> ts]

InitialAiMessage(id, ts) ==
  [id |-> id, text |-> <<>>, sender |-> MODEL, timestamp |-> ts]

\* mutant: the fragment write applied as a delta onto the previous text
UpdateText_Delta(prev, aiMessageId, text) ==
  [i \in DOMAIN prev |->
     IF prev[i].id = aiMessageId
     THEN [f \in DOMAIN prev[i] |-> IF f = "text" THEN prev[i].text \o text ELSE prev[i][f]]
     ELSE prev[i]]

\* mutant: the id test on the mapped message is dropped
UpdateText_NoIdTest(prev, aiMessageId, text) ==
  [i \in DOMAIN prev |->
     [f \in DOMAIN prev[i] |-> IF f = "text" THEN text ELSE prev[i][f]]]

\* mutant: the new text put in front of the previous text
UpdateText_DeltaFront(prev, aiMessageId, text) ==
  [i \in DOMAIN prev |->
     IF prev[i].id = aiMessageId
     THEN [f \in DOMAIN prev[i] |-> IF f = "text" THEN text \o prev[i].text ELSE prev[i][f]]
     ELSE prev[i]]

\* mutant: the write adds the message when the store does not hold it
UpdateText_Upsert(prev, aiMessageId, text) ==
  IF \E i \in DOMAIN prev : prev[i].id = aiMessageId
  THEN [i \in DOMAIN prev |->
          IF prev[i].id = aiMessageId
          THEN [f \in DOMAIN prev[i] |-> IF f = "text" THEN text ELSE prev[i][f]]
          ELSE prev[i]]
  ELSE Append(prev, [id |-> aiMessageId, text |-> text, sender |-> MODEL, timestamp |-> now])

\* prev.map(msg => msg.id === aiMessageId ? { ...msg, text } : msg)
UpdateText(prev, aiMessageId, text) ==
  [i \in DOMAIN prev |->
     IF prev[i].id = aiMessageId
     THEN [f \in DOMAIN prev[i] |-> IF f = "text" THEN text ELSE prev[i][f]]
     ELSE prev[i]]

\* mutant: the error annotation appended to the partial text
MarkError_KeepPartial(prev, aiMessageId) ==
  [i \in DOMAIN prev |->
     IF prev[i].id = aiMessageId
     THEN [f \in DOMAIN prev[i] \cup {"isError"} |->
             IF f = "text" THEN prev[i].text \o ErrorText
             ELSE IF f = "isError" THEN TRUE
             ELSE prev[i][f]]
     ELSE prev[i]]

\* mutant: the error overwrite without the id test
MarkError_NoIdTest(prev, aiMessageId) ==
  [i \in DOMAIN prev |->
     [f \in DOMAIN prev[i] \cup {"isError"} |->
        IF f = "text" THEN ErrorText
        ELSE IF f = "isError" THEN TRUE
        ELSE prev[i][f]]]

\* mutant: the error flag set without replacing the text
MarkError_FlagOnly(prev, aiMessageId) ==
  [i \in DOMAIN prev |->
     IF prev[i].id = aiMessageId
     THEN [f \in DOMAIN prev[i] \cup {"isError"} |->
             IF f = "isError" THEN TRUE ELSE prev[i][f]]
     ELSE prev[i]]

\* prev.map(msg => msg.id === aiMessageId ? { ...msg, text: ERR, isError: true } : msg)
MarkError(prev, aiMessageId) ==
  [i \in DOMAIN prev |->
     IF prev[i].id = aiMessageId
     THEN [f \in DOMAIN prev[i] \cup {"isError"} |->
             IF f = "text" THEN ErrorText
             ELSE IF f = "isError" THEN TRUE
             ELSE prev[i][f]]
     ELSE prev[i]]

\* mutant: the history taken after the user message was appended
HistoryForApi_WithUser(userMessage) == Append(messages, userMessage)

\* const historyForApi = messages  (the value the handler closed over)
HistoryForApi(userMessage) == messages

\* mutant: the adapter called with the default configuration
StartTurn_InitialConfig(userMessage, aiMessageId) ==
  [aiMessageId |-> aiMessageId,
   userId |-> userMessage.id,
   history |-> HistoryForApi(userMessage),
   newUserText |-> userMessage.text,
   config |-> INITIAL_CONFIG,
   accumulatedText |-> <<>>,
   yielded |-> <<>>]

\* streamGeminiResponse(historyForApi, userText, config); accumulatedText = ''
StartTurn(userMessage, aiMessageId) ==
  [aiMessageId |-> aiMessageId,
   userId |-> userMessage.id,
   history |-> HistoryForApi(userMessage),
   newUserText |-> userMessage.text,
   config |-> config,
   accumulatedText |-> <<>>,
   yielded |-> <<>>]

Streaming == DOMAIN turns

\* the invocations left when invocation i returns
Without(ts, i) == SubSeq(ts, 1, i - 1) \o SubSeq(ts, i + 1, Len(ts))

\* ---------------------------------------------------------------- actions
\* textarea onChange; the textarea is disabled while isLoading
OnChange ==
  /\ ~isLoading
  /\ \E s \in Inputs : input' = s
  /\ event' = "change"
  /\ UNCHANGED <<messages, isLoading, config, turns, nextId, now>>

\* the two suggestion buttons, rendered only while there are no messages
Suggest ==
  /\ Len(messages) = 0
  /\ \E s \in {Suggestion1, Suggestion2} : input' = s
  /\ event' = "suggest"
  /\ UNCHANGED <<messages, isLoading, config, turns, nextId, now>>

\* mutant: a confirmed clear also aborts the turn in flight
HandleClearHistory_Abort ==
  \E confirmed \in BOOLEAN :
    /\ messages' = IF confirmed THEN <<>> ELSE messages
    /\ isLoading' = IF confirmed THEN FALSE ELSE isLoading
    /\ turns' = IF confirmed THEN <<>> ELSE turns
    /\ event' = IF confirmed THEN "clear" ELSE "clearDeclined"
    /\ UNCHANGED <<input, config, nextId, now>>

\* mutant: a confirmed clear also empties the input buffer
HandleClearHistory_ResetInput ==
  \E confirmed \in BOOLEAN :
    /\ messages' = IF confirmed THEN <<>> ELSE messages
    /\ input' = IF confirmed THEN <<>> ELSE input
    /\ event' = IF confirmed THEN "clear" ELSE "clearDeclined"
    /\ UNCHANGED <<isLoading, config, turns, nextId, now>>

\* if (confirm(...)) setMessages([])
HandleClearHistory ==
  \E confirmed \in BOOLEAN :
    /\ messages' = IF confirmed THEN <<>> ELSE messages
    /\ event' = IF confirmed THEN "clear" ELSE "clearDeclined"
    /\ UNCHANGED <<input, isLoading, config, turns, nextId, now>>

SetConfig ==
  /\ \E c \in Configs : config' = c
  /\ event' = "config"
  /\ UNCHANGED <<messages, input, isLoading, turns, nextId, now>>

\* mutant: the guard tests the input only
SubmitGuard_NoLoadingTest == ~(Trim(input) = <<>>)

\* mutant: the same slip, with the test written positively
SubmitGuard_InputOnly == Trim(input) # <<>>

\* if (!input.trim() || isLoading) return;
SubmitGuard == ~(Trim(input) = <<>> \/ isLoading)

HandleSubmit ==
  /\ event' = "submit"
  /\ IF ~SubmitGuard
     THEN UNCHANGED <<messages, input, isLoading, config, turns, nextId, now>>
     ELSE /\ nextId < 2 * MaxTurns
          /\ LET userText == Trim(input)
                 userMessage == UserMessage(nextId, userText, now + 1)
                 aiMessageId == nextId + 1
                 initialAiMessage == InitialAiMessage(aiMessageId, now + 1)
             IN  /\ input' = <<>>
                 /\ messages' = Append(Append(messages, userMessage), initialAiMessage)
                 /\ isLoading' = TRUE
                 /\ turns' = Append(turns, StartTurn(userMessage, aiMessageId))
                 /\ nextId' = nextId + 2
                 /\ now' = now + 1
          /\ UNCHANGED config

\* one iteration of `for await (const chunk of stream)`
StreamChunk ==
  \E i \in Streaming : \E chunk \in NextFragments(turns[i].yielded) :
    LET accumulatedText == turns[i].accumulatedText \o chunk
    IN  /\ Len(turns[i].yielded) < MaxFrags
        /\ turns' = [turns EXCEPT ![i].accumulatedText = accumulatedText,
                                  ![i].yielded = Append(@, chunk)]
        /\ messages' = UpdateText(messages, turns[i].aiMessageId, accumulatedText)
        /\ event' = "chunk"
        /\ UNCHANGED <<input, isLoading, config, nextId, now>>

\* the stream is exhausted: the loop exits and `finally` runs
StreamEnd ==
  \E i \in Streaming :
    /\ turns' = Without(turns, i)
    /\ isLoading' = FALSE
    /\ event' = "end"
    /\ UNCHANGED <<messages, input, config, nextId, now>>

\* mutant: the loading flag reset on the success path only
StreamFail_NoFinally ==
  \E i \in Streaming :
    /\ messages' = MarkError(messages, turns[i].aiMessageId)
    /\ turns' = Without(turns, i)
    /\ event' = "fail"
    /\ UNCHANGED <<input, isLoading, config, nextId, now>>

\* mutant: the failure is shown and the stream is requested again
StreamFail_Retry ==
  \E i \in Streaming :
    /\ messages' = MarkError(messages, turns[i].aiMessageId)
    /\ turns' = [turns EXCEPT ![i].accumulatedText = <<>>, ![i].yielded = <<>>]
    /\ event' = "fail"
    /\ UNCHANGED <<input, isLoading, config, nextId, now>>

\* the stream throws: `catch` then `finally`
StreamFail ==
  \E i \in Streaming :
    /\ messages' = MarkError(messages, turns[i].aiMessageId)
    /\ turns' = Without(turns, i)
    /\ isLoading' = FALSE
    /\ event' = "fail"
    /\ UNCHANGED <<input, config, nextId, now>>

Next ==
  \/ OnChange
  \/ Suggest
  \/ HandleClearHistory
  \/ SetConfig
  \/ HandleSubmit
  \/ StreamChunk
  \/ StreamEnd
  \/ StreamFail

Spec == Init /\ [][Next]_vars

TypeOK ==
  /\ isLoading \in BOOLEAN
  /\ input \in Inputs \cup {Suggestion1, Suggestion2}
  /\ config \in Configs
  /\ Len(turns) <= MaxTurns
\* the event loop runs the continuation of handleSubmit whenever the stream,
\* which is finite, has produced its next result
StreamStep == StreamChunk \/ StreamEnd \/ StreamFail

LiveSpec == Spec /\ WF_vars(StreamStep)

\* ----------------------------------------------------------------- claims
\* the message of the store that carries the given id, if any
Holders(ms, id) == {k \in DOMAIN ms : ms[k].id = id}

AiIds(ts) == {ts[i].aiMessageId : i \in DOMAIN ts}

\* C1: after every step the placeholder of a turn in flight, while it is in
\* the store, carries exactly the concatenation of the fragments yielded so
\* far, in yield order, and is not an error; the step that ends the stream
\* normally leaves the store as the last fragment left it.
C1_FragmentsFoldedInOrder ==
  [][ /\ \A i \in DOMAIN turns' : \A k \in Holders(messages', turns'[i].aiMessageId) :
           /\ messages'[k].text = Concat(turns'[i].yielded)
           /\ ~IsError(messages'[k])
      /\ \A i \in DOMAIN turns :
           (event' = "chunk" /\ Holders(messages, turns[i].aiMessageId) # {})
             => Holders(messages', turns[i].aiMessageId) # {}
      /\ event' = "end" => messages' = messages ]_vars

\* C1 witness: a stream of two fragments ended normally and the placeholder
\* holds their concatenation.
C1_Witness ==
  /\ event = "end"
  /\ Len(messages) = 2
  /\ messages[2].sender = MODEL
  /\ messages[2].text = <<"x", "y", "x">>

\* C2: the step that handles a stream failure leaves the turn's placeholder,
\* when it is in the store, with isError = true and the fixed error string
\* as its text, whatever had been yielded before.
C2_FailureOverwritesPartial ==
  [][ \A i \in DOMAIN turns :
        (event' = "fail" /\ turns[i].aiMessageId \notin AiIds(turns'))
          => /\ Holders(messages', turns[i].aiMessageId) = Holders(messages, turns[i].aiMessageId)
             /\ \A k \in Holders(messages', turns[i].aiMessageId) :
                  /\ IsError(messages'[k])
                  /\ messages'[k].text = ErrorText
                  /\ messages'[k].text # Concat(turns[i].yielded) ]_vars

\* C2 witness: a turn failed and its placeholder, the second message, shows
\* the error.
C2_Witness ==
  /\ event = "fail"
  /\ Len(messages) = 2
  /\ IsError(messages[2])
  /\ messages[2].text = ErrorText

\* C3: a handleSubmit step taken while isLoading is true changes nothing:
\* no message appended, input kept, no adapter call.
C3_SubmitWhileLoadingIsNoOp ==
  [][ (isLoading /\ event' = "submit")
        => UNCHANGED <<messages, input, isLoading, config, turns, nextId, now>> ]_vars

\* C3 witness: a submit arrived while loading with a non-blank input buffer
\* and was rejected.
C3_Witness ==
  /\ event = "submit"
  /\ isLoading
  /\ Trim(input) # <<>>
  /\ Len(turns) = 1

\* C4: at most one handleSubmit invocation is consuming a stream and at most
\* one message of the store is the placeholder of a turn in flight.
C4_AtMostOneTurnInFlight ==
  /\ Len(turns) <= 1
  /\ Cardinality({k \in DOMAIN messages : messages[k].id \in AiIds(turns)}) <= 1

\* C4 witness: a submit arrived mid-stream, after a fragment, and one turn
\* is in flight.
C4_Witness ==
  /\ event = "submit"
  /\ Len(turns) = 1
  /\ turns[1].yielded # <<>>
  /\ Holders(messages, turns[1].aiMessageId) # {}

\* C5: isLoading is true in every state in which a turn is in flight, and
\* every turn in flight whose stream goes on to end or fail is followed by
\* a state with no turn in flight and isLoading = false, where the guard of
\* handleSubmit depends on the input alone.
C5_LoadingUntilStreamEnds ==
  /\ [](turns # <<>> => isLoading)
  /\ (turns # <<>>) ~> (turns = <<>> /\ ~isLoading)

\* C5 witness: a stream failed, the flag is back to false and nothing is in
\* flight.
C5_Witness ==
  /\ event = "fail"
  /\ ~isLoading
  /\ turns = <<>>
  /\ nextId = 3

\* C6: while a turn is in flight, a step that is not a step of its stream
\* leaves the invocation and isLoading as they are, and a fragment step
\* keeps the turn in flight with isLoading true; so only the end or the
\* failure of the stream ends the turn, and without one it stays in flight.
C6_OnlyStreamEndsTurn ==
  [][ turns # <<>> =>
        /\ event' \notin {"chunk", "end", "fail"}
             => (turns' = turns /\ isLoading' = isLoading)
        /\ event' = "chunk"
             => (AiIds(turns') = AiIds(turns) /\ isLoading' = isLoading) ]_vars

\* C6 witness: the user confirmed a clear after a fragment arrived and the
\* turn is still in flight and loading.
C6_Witness ==
  /\ event = "clear"
  /\ isLoading
  /\ Len(turns) = 1
  /\ turns[1].yielded # <<>>

\* C7: a USER message that is in the store before and after a step is the
\* same record after it (id, text, sender, timestamp, no error flag).
C7_UserMessagesImmutable ==
  [][ \A k \in DOMAIN messages : \A j \in DOMAIN messages' :
        (messages[k].sender = USER /\ messages'[j].id = messages[k].id)
          => messages'[j] = messages[k] ]_vars

\* C7 witness: two turns are in the store, the first answered by fragments,
\* the second overwritten by the error.
C7_Witness ==
  /\ Len(messages) = 4
  /\ messages[1].sender = USER
  /\ messages[3].sender = USER
  /\ messages[2].text = <<"x", "y", "x">>
  /\ IsError(messages[4])

\* C8: a declined clear leaves messages unchanged, a confirmed clear leaves
\* messages empty, and both leave isLoading, input and config unchanged.
C8_ClearFrame ==
  [][ /\ event' = "clearDeclined" => messages' = messages
      /\ event' = "clear" => messages' = <<>>
      /\ event' \in {"clear", "clearDeclined"}
           => UNCHANGED <<input, isLoading, config>> ]_vars

\* C8 witness: a confirmed clear emptied the store after a turn had run,
\* with text waiting in the input buffer and an edited configuration.
C8_Witness ==
  /\ event = "clear"
  /\ messages = <<>>
  /\ nextId > 1
  /\ ~isLoading
  /\ input # <<>>
  /\ config # INITIAL_CONFIG

\* C9: the step that accepts a submission calls the adapter with the store
\* as it was before the step as history, which holds neither the new USER
\* message nor the new placeholder, and with the trimmed input as the
\* separate newUserText.
C9_HistoryIsPriorStore ==
  [][ (event' = "submit" /\ Len(turns') > Len(turns)) =>
        LET t == turns'[Len(turns')]
        IN  /\ t.history = messages
            /\ t.userId \notin Ids(t.history)
            /\ t.aiMessageId \notin Ids(t.history)
            /\ t.newUserText = Trim(input)
            /\ Len(messages') = Len(messages) + 2
            /\ messages'[Len(messages) + 1].id = t.userId
            /\ messages'[Len(messages) + 2].id = t.aiMessageId ]_vars

\* C9 witness: a second turn was started with the two messages of the first
\* turn as its history.
C9_Witness ==
  /\ event = "submit"
  /\ Len(turns) = 1
  /\ Len(turns[1].history) = 2
  /\ Len(messages) = 4

\* C10: a new turn carries the configuration of the moment it starts, the
\* configuration of a turn in flight never changes, and the steps of
\* handleSubmit leave the configuration holder unchanged.
C10_ConfigFixedAtTurnStart ==
  [][ /\ (event' = "submit" /\ Len(turns') > Len(turns))
           => turns'[Len(turns')].config = config
      /\ \A i \in DOMAIN turns : \A j \in DOMAIN turns' :
           turns'[j].aiMessageId = turns[i].aiMessageId
             => turns'[j].config = turns[i].config
      /\ event' \in {"submit", "chunk", "end", "fail"} => config' = config ]_vars

\* C10 witness: the configuration was edited mid-stream and the turn in
\* flight still carries the configuration it started with.
C10_Witness ==
  /\ Len(turns) = 1
  /\ turns[1].yielded # <<>>
  /\ turns[1].config # config
  /\ turns[1].config # INITIAL_CONFIG

\* C11: a step other than a confirmed clear keeps every message at its
\* position with its id; a step that is neither a submission, a fragment
\* write, an error overwrite nor a confirmed clear leaves the store as it
\* is; a submission only appends; a fragment write or an error overwrite
\* keeps the length and changes no message but the placeholder of the turn
\* in flight.
C11_AppendOnlyButPlaceholder ==
  [][ /\ event' # "clear"
           => /\ Len(messages') >= Len(messages)
              /\ \A k \in DOMAIN messages : messages'[k].id = messages[k].id
      /\ event' \notin {"submit", "chunk", "fail", "clear"} => messages' = messages
      /\ event' = "submit"
           => SubSeq(messages', 1, Len(messages)) = messages
      /\ event' \in {"chunk", "fail"}
           => /\ Len(messages') = Len(messages)
              /\ \E i \in DOMAIN turns : \A k \in DOMAIN messages :
                   messages[k].id # turns[i].aiMessageId
                     => messages'[k] = messages[k] ]_vars

\* C11 witness: the placeholder of the second turn was just written while
\* the answer of the first turn is still in the store.
C11_Witness ==
  /\ event = "chunk"
  /\ Len(messages) = 4
  /\ messages[2].text = <<"y", "x">>
  /\ messages[4].text = <<"x">>

\* C12: the adapter is called only by an accepted submission and once per
\* submission, with a fresh placeholder id; the failure step ends the
\* invocation without starting another and changes no message but that
\* turn's placeholder; and a message is written only while it is the
\* placeholder of a turn in flight, so nothing is folded into it after the
\* failure.
C12_FailureHandledOnce ==
  [][ /\ nextId' >= nextId
      /\ \A i \in DOMAIN turns : turns[i].aiMessageId < nextId
      /\ AiIds(turns') \ AiIds(turns) # {}
           => /\ event' = "submit"
              /\ AiIds(turns') = AiIds(turns) \cup {nextId + 1}
              /\ Len(turns') = Len(turns) + 1
              /\ nextId' = nextId + 2
      /\ event' = "fail"
           => \E i \in DOMAIN turns :
                /\ AiIds(turns') = AiIds(turns) \ {turns[i].aiMessageId}
                /\ Len(turns') = Len(turns) - 1
                /\ Len(messages') = Len(messages)
                /\ \A k \in DOMAIN messages :
                     messages'[k] # messages[k]
                       => /\ messages[k].id = turns[i].aiMessageId
                          /\ ~IsError(messages[k])
      /\ \A k \in DOMAIN messages : \A j \in DOMAIN messages' :
           (messages'[j].id = messages[k].id /\ messages'[j] # messages[k])
             => messages[k].id \in AiIds(turns) ]_vars

\* C12 witness: the first turn failed, and the second turn then received a
\* fragment in its own placeholder.
C12_Witness ==
  /\ event = "chunk"
  /\ Len(messages) = 4
  /\ IsError(messages[2])
  /\ messages[2].text = ErrorText
  /\ messages[4].text # <<>>
  /\ Len(turns) = 1

\* t is s without its leading and trailing blanks
Blanks(n) == [k \in 1..n |-> " "]

IsTrimOf(t, s) ==
  /\ t = <<>> \/ (t[1] # " " /\ t[Len(t)] # " ")
  /\ \E a \in 0..Len(s) : \E b \in 0..Len(s) : s = Blanks(a) \o t \o Blanks(b)

\* C13: a handleSubmit step with an input of blanks only, or while
\* isLoading, changes nothing; any other handleSubmit step appends a USER
\* message whose text is the input without its surrounding blanks, then a
\* MODEL message with empty text, both with ids that differ and are not in
\* the store, empties the input and sets isLoading.
C13_SubmissionAcceptance ==
  [][ event' = "submit" =>
        IF (\A k \in DOMAIN input : input[k] = " ") \/ isLoading
        THEN UNCHANGED <<messages, input, isLoading, config, turns, nextId, now>>
        ELSE LET n == Len(messages)
             IN  /\ Len(messages') = n + 2
                 /\ SubSeq(messages', 1, n) = messages
                 /\ messages'[n + 1].sender = USER
                 /\ IsTrimOf(messages'[n + 1].text, input)
                 /\ messages'[n + 1].text # <<>>
                 /\ ~IsError(messages'[n + 1])
                 /\ messages'[n + 2].sender = MODEL
                 /\ messages'[n + 2].text = <<>>
                 /\ ~IsError(messages'[n + 2])
                 /\ messages'[n + 2].id # messages'[n + 1].id
                 /\ {messages'[n + 1].id, messages'[n + 2].id} \cap Ids(messages) = {}
                 /\ input' = <<>>
                 /\ isLoading' = TRUE ]_vars

\* C13 witness: a submission was just accepted; the store ends with the
\* USER message "a" and an empty placeholder, the input is empty and
\* isLoading is set.
C13_Witness ==
  /\ event = "submit"
  /\ isLoading
  /\ input = <<>>
  /\ Len(messages) = 2
  /\ messages[1].text = <<"a">>
  /\ messages[2].text = <<>>
  /\ turns # <<>>
  /\ turns[1].yielded = <<>>

\* C14: for a turn in flight and any next fragment, writing the new
\* accumulator into the store twice gives the same store as writing it
\* once, the placeholder then holds the accumulator, and the result is the
\* same whatever text the placeholder held before the write.
C14_FragmentWriteIdempotent ==
  \A i \in DOMAIN turns : \A chunk \in Fragments :
    LET id == turns[i].aiMessageId
        acc == turns[i].accumulatedText \o chunk
        once == UpdateText(messages, id, acc)
        blank == [k \in DOMAIN messages |->
                    IF messages[k].id = id
                    THEN [f \in DOMAIN messages[k] |->
                            IF f = "text" THEN <<>> ELSE messages[k][f]]
                    ELSE messages[k]]
    IN  /\ UpdateText(once, id, acc) = once
        /\ \A k \in Holders(once, id) : once[k].text = acc
        /\ UpdateText(blank, id, acc) = once

\* C14 witness: a turn in flight has folded one fragment and its
\* placeholder, holding that text, is in the store.
C14_Witness ==
  /\ event = "chunk"
  /\ Len(turns) = 1
  /\ Len(turns[1].yielded) = 1
  /\ \E k \in Holders(messages, turns[1].aiMessageId) :
       messages[k].text = turns[1].accumulatedText

\* C15: an empty store becomes non-empty only by an accepted submission,
\* taken with no turn in flight and isLoading false; isLoading is true
\* after every step that leaves a turn in flight; and a handleSubmit step
\* taken while a turn is in flight changes neither the store nor the turns.
C15_ClearMidStreamStaysEmpty ==
  [][ /\ (messages = <<>> /\ messages' # <<>>)
           => (event' = "submit" /\ turns = <<>> /\ ~isLoading)
      /\ turns' # <<>> => isLoading'
      /\ (turns # <<>> /\ event' = "submit")
           => UNCHANGED <<messages, turns, isLoading>> ]_vars

\* C15 witness: the store of the first turn was cleared mid-stream and the
\* stream then failed; the store is still empty.
C15_Witness ==
  /\ event = "fail"
  /\ messages = <<>>
  /\ nextId = 3
  /\ turns = <<>>
  /\ ~isLoading

\* C16: the store has even length, the message at every odd position is a
\* USER message and the one after it is the MODEL message created by the
\* same submission (the id drawn right after the USER message's).
C16_UserModelPairs ==
  /\ Len(messages) % 2 = 0
  /\ \A k \in DOMAIN messages :
       IF k % 2 = 1
       THEN /\ messages[k].sender = USER
            /\ k + 1 \in DOMAIN messages
            /\ messages[k + 1].id = messages[k].id + 1
       ELSE messages[k].sender = MODEL

\* C16 witness: two pairs are in the store, the first answered, the second
\* just submitted.
C16_Witness ==
  /\ event = "submit"
  /\ Len(messages) = 4
  /\ messages[2].text = <<"x">>
  /\ messages[4].text = <<>>
  /\ isLoading

\* C17: after every step a message with isError = true is a MODEL message
\* whose text is the fixed error string, and a message with isError = true
\* that stays in the store is the same record after the step.
C17_ErrorMessagesFinal ==
  [][ /\ \A j \in DOMAIN messages' :
           IsError(messages'[j])
             => (messages'[j].sender = MODEL /\ messages'[j].text = ErrorText)
      /\ \A k \in DOMAIN messages : \A j \in DOMAIN messages' :
           (IsError(messages[k]) /\ messages'[j].id = messages[k].id)
             => messages'[j] = messages[k] ]_vars

\* C17 witness: the first turn failed after a fragment, and the second turn
\* has since been answered and ended with the error message untouched.
C17_Witness ==
  /\ event = "end"
  /\ Len(messages) = 4
  /\ IsError(messages[2])
  /\ messages[2].text = ErrorText
  /\ messages[4].text = <<"y", "x", "x">>
====
